---- MODULE Spec2Model ----
(***************************************************************************)
(* A model of pyweb's processor pipeline (pyweb/processors.py) and of its  *)
(* command line front end (pyweb/pywebgen.py).  File names are sequences   *)
(* of one-character strings, so that startswith, endswith, basename and    *)
(* replace are computed character by character, as Python computes them.   *)
(***************************************************************************)
EXTENDS Integers, Sequences, FiniteSets, TLC

\* ------------------------------------------------------------------ bounds
MaxNames == 2      \* longest list of processor names given to GetProcessors
MaxFiles == 2      \* most input files processed in one generation run
MaxRuns == 2       \* most generation runs driven through one pipeline
MaxArgs == 3       \* most positional words on a command line
MaxClock == 3      \* the wall clock runs from 1 to MaxClock

\* ------------------------------------------------------- Python str helpers
startswith(s, p) == Len(s) >= Len(p) /\ SubSeq(s, 1, Len(p)) = p

endswith(s, p) == Len(s) >= Len(p) /\ SubSeq(s, Len(s) - Len(p) + 1, Len(s)) = p

\* os.path.basename: everything after the last "/".
basename(s) ==
  LET slashes == {i \in 1..Len(s) : s[i] = "/"}
      last == IF slashes = {} THEN 0 ELSE CHOOSE i \in slashes : \A j \in slashes : j <= i
  IN SubSeq(s, last + 1, Len(s))

\* os.path.dirname followed by the separator: everything up to the last "/".
dirpart(s) == SubSeq(s, 1, Len(s) - Len(basename(s)))

\* str.replace(old, new): every non-overlapping occurrence, left to right.
RECURSIVE replace(_, _, _)
replace(s, old, new) ==
  IF s = <<>> THEN <<>>
  ELSE IF startswith(s, old)
       THEN new \o replace(SubSeq(s, Len(old) + 1, Len(s)), old, new)
       ELSE <<Head(s)>> \o replace(Tail(s), old, new)

\* --------------------------------------------------------- file name pieces
YAML == <<".", "y", "a", "m", "l">>
HTML == <<".", "h", "t", "m", "l">>
CSS == <<".", "c", "s", "s">>

DIR == <<"d">> \o YAML \o <<"/">>

\* The relative paths an input tree is drawn from: plain, rendered and
\* protected names, at the top and under a directory named d.yaml.
InputPaths ==
  { <<"a">>, <<"a">> \o YAML, <<"a">> \o HTML, <<"a">> \o CSS,
    <<"_", "a">> \o HTML, <<".", "#", "a">> \o YAML, <<"a">> \o YAML \o <<"~">>,
    DIR \o <<"a">> \o YAML, DIR \o <<"_", "a">> \o HTML }

\* File contents: a document its renderer accepts, and one it rejects.
Contents == { <<"text">>, <<"broken">> }

\* ------------------------------------------------------------ processors.py
NoAttr == "NoAttr"      \* the instance has no such attribute

\* A processor instance: its class and its two run-scoped attributes.
NewInstance(cls) == [cls |-> cls, ctx |-> NoAttr, env |-> NoAttr]

Renderers == { "YamlJinja", "HtmlJinja", "CssYaml" }

\* The names that are keys of PROCESSORS.
ListProcessors == Renderers

\* PROCESSORS: registered name -> class.
PROCESSORS(name) == name

\* The modules the processors import when they are instantiated.
Modules == { "jinja2", "jinja2_markdown", "yaml", "cssyaml" }

NoError == [kind |-> "none", arg |-> "none"]

\* HtmlJinjaProcessor.__init__: either import failing is reported as 'jinja2'.
HtmlJinjaInit(avail) ==
  IF "jinja2" \in avail /\ "jinja2_markdown" \in avail
  THEN NoError
  ELSE [kind |-> "MissingPythonModule", arg |-> "jinja2"]

\* YamlJinjaProcessor.__init__: the parent's constructor, then import yaml.
YamlJinjaInit(avail) ==
  IF HtmlJinjaInit(avail) # NoError THEN HtmlJinjaInit(avail)
  ELSE IF "yaml" \in avail THEN NoError
  ELSE [kind |-> "MissingPythonModule", arg |-> "yaml"]

\* What "import cssyaml" raises when that module cannot be loaded.
CssYamlImport(avail) ==
  IF "cssyaml" \in avail THEN NoError
  ELSE [kind |-> "MissingPythonModule", arg |-> "cssyaml"]

\* CssYamlProcessor.__init__: a bare import, whose exception propagates.
CssYamlInit(avail) == CssYamlImport(avail)

\* Calling a registered class: PROCESSORS[processor]().
Instantiate(cls, avail) ==
  CASE cls = "HtmlJinja" -> HtmlJinjaInit(avail)
    [] cls = "YamlJinja" -> YamlJinjaInit(avail)
    [] cls = "CssYaml" -> CssYamlInit(avail)

\* The loop of GetProcessors over the names from position i on, with the
\* instances made so far.
RECURSIVE GetProcessorsLoop(_, _, _, _)
GetProcessorsLoop(processors, i, processor_objs, avail) ==
  IF i > Len(processors)
  THEN [err |-> NoError, objs |-> processor_objs]
  ELSE IF processors[i] \notin ListProcessors
  THEN [err |-> [kind |-> "UnknownProcessor", arg |-> processors[i]], objs |-> <<>>]
  ELSE IF Instantiate(PROCESSORS(processors[i]), avail) # NoError
  THEN [err |-> Instantiate(PROCESSORS(processors[i]), avail), objs |-> <<>>]
  ELSE GetProcessorsLoop(processors, i + 1,
         Append(processor_objs, NewInstance(PROCESSORS(processors[i]))), avail)

\* A GetProcessors that puts the ignore processor after the configured ones.
GetProcessorsIgnoreLate(processors, avail) ==
  LET r == GetProcessorsLoop(processors, 1, <<>>, avail)
  IN IF r.err # NoError
     THEN [err |-> r.err, pipeline |-> <<>>]
     ELSE [err |-> NoError,
           pipeline |-> r.objs \o <<NewInstance("Ignore"), NewInstance("Copy")>>]

\* GetProcessors(processors): the exception raised, or the pipeline returned.
GetProcessors(processors, avail) ==
  LET r == GetProcessorsLoop(processors, 1, <<>>, avail)
  IN IF r.err # NoError
     THEN [err |-> r.err, pipeline |-> <<>>]
     ELSE [err |-> NoError,
           pipeline |-> <<NewInstance("Ignore")>> \o r.objs \o <<NewInstance("Copy")>>]

\* An ignore rule that looks at the whole path instead of the base name.
IgnoreCanProcessFileWholePath(filename) ==
  \/ startswith(filename, <<"_">>)
  \/ startswith(filename, <<".", "#">>)
  \/ endswith(filename, <<"~">>)

\* IgnoreProtectedFileProcessor.CanProcessFile
IgnoreCanProcessFile(filename) ==
  LET base == basename(filename)
  IN startswith(base, <<"_">>) \/ startswith(base, <<".", "#">>) \/ endswith(base, <<"~">>)

\* <class>.CanProcessFile(filename)
CanProcessFile(cls, filename) ==
  CASE cls = "Ignore" -> IgnoreCanProcessFile(filename)
    [] cls = "HtmlJinja" -> endswith(filename, HTML)
    [] cls = "YamlJinja" -> endswith(filename, YAML)
    [] cls = "CssYaml" -> endswith(filename, CSS)
    [] cls = "Copy" -> TRUE

\* YamlJinjaProcessor.OutputFileRename
YamlOutputFileRename(in_path) == replace(in_path, YAML, HTML)

\* <class>.OutputFileRename(in_path): only YamlJinjaProcessor overrides it.
OutputFileRename(cls, in_path) ==
  IF cls = "YamlJinja" THEN YamlOutputFileRename(in_path) ELSE in_path

\* What a rendering engine makes of a document under a context: never the
\* document itself.
Render(cls, in_str, ctx) == <<cls>> \o in_str \o <<ctx>>

\* <class>.StartProcessing(ctx) on an instance
StartProcessing(self, ctx) ==
  CASE self.cls \in { "HtmlJinja", "YamlJinja" } -> [self EXCEPT !.ctx = ctx, !.env = ctx]
    [] self.cls = "CssYaml" -> [self EXCEPT !.ctx = ctx]
    [] OTHER -> self

\* An EndProcessing that forgets to delete self._ctx.
HtmlEndProcessingKeepsCtx(self) ==
  IF self.env = NoAttr THEN [self |-> self, err |-> "AttributeError"]
  ELSE [self |-> [self EXCEPT !.env = NoAttr], err |-> "none"]

\* HtmlJinjaProcessor.EndProcessing: del self._env, then del self._ctx.
HtmlEndProcessing(self) ==
  IF self.env = NoAttr THEN [self |-> self, err |-> "AttributeError"]
  ELSE IF self.ctx = NoAttr
  THEN [self |-> [self EXCEPT !.env = NoAttr], err |-> "AttributeError"]
  ELSE [self |-> [self EXCEPT !.env = NoAttr, !.ctx = NoAttr], err |-> "none"]

\* CssYamlProcessor.EndProcessing: del self._ctx.
CssEndProcessing(self) ==
  IF self.ctx = NoAttr THEN [self |-> self, err |-> "AttributeError"]
  ELSE [self |-> [self EXCEPT !.ctx = NoAttr], err |-> "none"]

\* <class>.EndProcessing() on an instance
EndProcessing(self) ==
  CASE self.cls \in { "HtmlJinja", "YamlJinja" } -> HtmlEndProcessing(self)
    [] self.cls = "CssYaml" -> CssEndProcessing(self)
    [] OTHER -> [self |-> self, err |-> "none"]

NoWrite == <<>>

\* A copy processor that reports success without copying.
CopyProcessFileNothing(in_str) == [ret |-> "True", written |-> NoWrite]

\* CopyFileProcessor.ProcessFile: shutil.copy(in_path, out_path).
CopyProcessFile(in_str) == [ret |-> "True", written |-> in_str]

\* The ProcessFile of the three renderers: read, render under the run's
\* context, write; the engine raises on a document it rejects, before the write.
RenderProcessFile(self, in_str) ==
  IF self.ctx = NoAttr \/ (self.cls # "CssYaml" /\ self.env = NoAttr)
  THEN [ret |-> "AttributeError", written |-> NoWrite]
  ELSE IF in_str = <<"broken">>
  THEN [ret |-> "RenderError", written |-> NoWrite]
  ELSE [ret |-> "True", written |-> Render(self.cls, in_str, self.ctx)]

\* <class>.ProcessFile(in_path, out_path) on an instance: what it returns or
\* raises, and what it writes to out_path.
ProcessFile(self, in_str) ==
  CASE self.cls = "Ignore" -> [ret |-> "None", written |-> NoWrite]
    [] self.cls = "Copy" -> CopyProcessFile(in_str)
    [] OTHER -> RenderProcessFile(self, in_str)

\* ------------------------------------------------- the generator's run loop
VARIABLES
  avail,      \* the optional modules that can be imported
  phase,      \* "new", "failed" (construction raised), "ready", "running"
  names,      \* the processor names the pipeline was asked for
  buildErr,   \* what GetProcessors raised
  pipeline,   \* the processor instances, in pipeline order
  run,        \* generation runs started so far
  inputs,     \* input files walked in this run
  outfs,      \* the output tree: output path -> content
  manifest,   \* the Manifest of this run
  failed,     \* input files recorded as failed in this run
  last,       \* the last file step, as a sequence of at most one record
  endErr      \* what the last teardown raised

gvars == <<avail, phase, names, buildErr, pipeline, run, inputs, outfs, manifest,
           failed, last, endErr>>

\* The state the commands of pywebgen.py act on.
VARIABLES
  now,         \* the wall clock, which names the next version
  versions,    \* the version directories under the versions root
  current,     \* the Current Pointer: {} or { v }
  siteExists,  \* whether the site directory exists
  res          \* the last command's outcome, as a sequence of at most one record

cvars == <<now, versions, current, siteExists, res>>

vars == <<gvars, cvars>>

UnknownNames == { "Markdown" }

RECURSIVE SeqsUpTo(_, _)
SeqsUpTo(S, n) ==
  IF n = 0 THEN { <<>> }
  ELSE SeqsUpTo(S, n - 1) \cup { Append(q, x) : q \in SeqsUpTo(S, n - 1), x \in S }

\* The context of the r-th run.
Context(r) == ToString(r)

\* Resolve: the first processor, in pipeline order, whose CanProcessFile is
\* true; 0 when there is none.
Resolve(procs, filename) ==
  LET can == { i \in 1..Len(procs) : CanProcessFile(procs[i].cls, filename) }
  IN IF can = {} THEN 0 ELSE CHOOSE i \in can : \A j \in can : i <= j

\* A Manifest that lists every output path it is given.
ManifestAddAlways(m, path) == Append(m, path)

\* The Manifest is an ordered set: a path already listed is not listed again.
ManifestAdd(m, path) ==
  IF \E i \in 1..Len(m) : m[i] = path THEN m ELSE Append(m, path)

\* EndProcessing on every processor from position i on, in pipeline order; an
\* exception ends the loop.
RECURSIVE EndAll(_, _)
EndAll(procs, i) ==
  IF i > Len(procs) THEN [procs |-> procs, err |-> "none"]
  ELSE LET r == EndProcessing(procs[i])
       IN IF r.err # "none"
          THEN [procs |-> [procs EXCEPT ![i] = r.self], err |-> r.err]
          ELSE EndAll([procs EXCEPT ![i] = r.self], i + 1)

\* A generator that has not been given its processors yet.
GStart ==
  /\ phase = "new"
  /\ names = <<>>
  /\ buildErr = NoError
  /\ pipeline = <<>>
  /\ run = 0
  /\ inputs = {}
  /\ outfs = <<>>
  /\ manifest = <<>>
  /\ failed = {}
  /\ last = <<>>
  /\ endErr = "none"

\* The generator is constructed with a list of processor names.
Build ==
  /\ phase = "new"
  /\ \E ns \in SeqsUpTo(ListProcessors \cup UnknownNames, MaxNames) :
       LET r == GetProcessors(ns, avail)
       IN /\ names' = ns
          /\ buildErr' = r.err
          /\ pipeline' = r.pipeline
          /\ phase' = IF r.err = NoError THEN "ready" ELSE "failed"
  /\ UNCHANGED <<avail, run, inputs, outfs, manifest, failed, last, endErr, cvars>>

\* A run begins: an empty Manifest, a fresh output root, and StartProcessing
\* on every processor, in pipeline order.
StartRun ==
  /\ phase = "ready"
  /\ run < MaxRuns
  /\ run' = run + 1
  /\ pipeline' = [i \in 1..Len(pipeline) |-> StartProcessing(pipeline[i], Context(run + 1))]
  /\ phase' = "running"
  /\ inputs' = {}
  /\ outfs' = <<>>
  /\ manifest' = <<>>
  /\ failed' = {}
  /\ last' = <<>>
  /\ endErr' = "none"
  /\ UNCHANGED <<avail, names, buildErr, cvars>>

\* One input file goes through the pipeline.
ProcessOne ==
  /\ phase = "running"
  /\ Cardinality(inputs) < MaxFiles
  /\ \E in_path \in InputPaths \ inputs, in_str \in Contents :
       LET idx == Resolve(pipeline, in_path)
           out_path == OutputFileRename(pipeline[idx].cls, in_path)
           r == ProcessFile(pipeline[idx], in_str)
       IN /\ idx # 0
          /\ inputs' = inputs \cup { in_path }
          /\ outfs' = IF r.written # NoWrite
                      THEN (out_path :> r.written) @@ outfs
                      ELSE outfs
          /\ manifest' = IF r.ret = "True" THEN ManifestAdd(manifest, out_path)
                         ELSE manifest
          /\ failed' = IF r.ret \in { "True", "None" } THEN failed
                       ELSE failed \cup { in_path }
          /\ last' = << [in_path |-> in_path, in_str |-> in_str, idx |-> idx,
                         cls |-> pipeline[idx].cls, out_path |-> out_path,
                         ret |-> r.ret, written |-> r.written,
                         wrote |-> { q \in DOMAIN outfs' :
                                      q \notin DOMAIN outfs \/ outfs'[q] # outfs[q] },
                         listed |-> (manifest' # manifest)] >>
  /\ UNCHANGED <<avail, phase, names, buildErr, pipeline, run, endErr, cvars>>

\* The run ends, whether or not a file failed: EndProcessing on every processor.
EndRun ==
  /\ phase = "running"
  /\ LET r == EndAll(pipeline, 1)
     IN /\ pipeline' = r.procs
        /\ endErr' = r.err
  /\ phase' = "ready"
  /\ UNCHANGED <<avail, names, buildErr, run, inputs, outfs, manifest, failed, last, cvars>>

\* ------------------------------------------------------------- pywebgen.py
\* Command-line words.
D == <<"d">>
LATEST == <<"l", "a", "t", "e", "s", "t">>
DASHDASH == <<"-", "-">>
Digits == { "0", "1", "2", "3", "4", "5", "6", "7", "8", "9" }

DigitVal(c) == CHOOSE n \in 0..9 : ToString(n) = c

RECURSIVE DigitsVal(_)
DigitsVal(w) == IF w = <<>> THEN 0 ELSE 10 * DigitsVal(SubSeq(w, 1, Len(w) - 1)) + DigitVal(w[Len(w)])

\* Python's int(str): an optional sign, then one or more decimal digits;
\* anything else is a ValueError.
int(w) ==
  LET signed == w # <<>> /\ w[1] \in { "-", "+" }
      body == IF signed THEN Tail(w) ELSE w
  IN IF body = <<>> \/ \E i \in 1..Len(body) : body[i] \notin Digits
     THEN [ValueError |-> TRUE, val |-> 0]
     ELSE [ValueError |-> FALSE,
           val |-> IF signed /\ w[1] = "-" THEN 0 - DigitsVal(body) ELSE DigitsVal(body)]

\* optparse's parse_args for a command's parser: short options are taken out
\* of the words, "--" ends the options, an unknown option or an option missing
\* its value is parser.error (exit status 2).
RECURSIVE parse_args(_, _, _, _)
parse_args(valueOpts, flagOpts, rargs, args) ==
  IF rargs = <<>> THEN [error |-> FALSE, args |-> args]
  ELSE IF Head(rargs) = DASHDASH THEN [error |-> FALSE, args |-> args \o Tail(rargs)]
  ELSE IF Len(Head(rargs)) > 1 /\ Head(rargs)[1] = "-"
  THEN IF Head(rargs) \in valueOpts
       THEN IF Tail(rargs) = <<>> THEN [error |-> TRUE, args |-> <<>>]
            ELSE parse_args(valueOpts, flagOpts, Tail(Tail(rargs)), args)
       ELSE IF Head(rargs) \in flagOpts
       THEN parse_args(valueOpts, flagOpts, Tail(rargs), args)
       ELSE [error |-> TRUE, args |-> <<>>]
  ELSE parse_args(valueOpts, flagOpts, Tail(rargs), Append(args, Head(rargs)))

OPT_d == <<"-", "d">>
OPT_E == <<"-", "E">>
OPT_m == <<"-", "m">>

\* COMMANDS
COMMANDS ==
  { "startsite", "generate", "vgenerate", "vcurrent", "vinfo", "vgc", "deploy", "undeploy" }

\* The ascending list of a set of version identifiers.
RECURSIVE Sorted(_)
Sorted(S) ==
  IF S = {} THEN <<>>
  ELSE LET m == CHOOSE x \in S : \A y \in S : x <= y IN <<m>> \o Sorted(S \ { m })

Latest(vs) == CHOOSE v \in vs : \A w \in vs : w <= v

\* VersionnedGenerator.Generate: a new version named by the clock; the first
\* version, or an auto-promoted one, becomes current.
GenerateVersion(vs, cur, ts, auto) ==
  IF ts \in vs
  THEN [raised |-> "VersionCollision", versions |-> vs, current |-> cur, promoted |-> FALSE]
  ELSE [raised |-> "none", versions |-> vs \cup { ts },
        current |-> IF vs = {} \/ auto THEN { ts } ELSE cur,
        promoted |-> (vs = {} \/ auto)]

\* VersionnedGenerator.ChangeCurrent(version): 0 selects the most recent version.
ChangeCurrent(vs, cur, version) ==
  IF version = 0 /\ vs # {}
  THEN [raised |-> "none", current |-> { Latest(vs) }]
  ELSE IF version # 0 /\ version \in vs
  THEN [raised |-> "none", current |-> { version }]
  ELSE [raised |-> "NoSuchVersion", current |-> cur]

\* A collection that keeps the most recent version instead of the current one.
GarbageCollectKeepLatest(vs, cur) ==
  IF cur = {} THEN [versions |-> vs, removed |-> <<>>]
  ELSE [versions |-> { Latest(vs) }, removed |-> Sorted(vs \ { Latest(vs) })]

\* VersionnedGenerator.GarbageCollect: with a current version, every other
\* version goes; without one, nothing does.
GarbageCollect(vs, cur) ==
  IF cur = {} THEN [versions |-> vs, removed |-> <<>>]
  ELSE [versions |-> vs \cap cur, removed |-> Sorted(vs \ cur)]

\* What a command did: the value main returned (or the exception that left
\* it), the operations of the other modules it invoked, and the state after.
Outcome(ret, raised, ops, st) ==
  [ret |-> ret, raised |-> raised, ops |-> ops, st |-> st, sel |-> {}, removed |-> <<>>]

\* An exception that nothing catches ends the interpreter with status 1.
Raise(exc, ops, st) == Outcome(1, exc, ops, st)

\* A startsite that does not look whether the path exists.
startsite_cmd_unchecked(cmdline, st) ==
  LET p == parse_args({ OPT_d }, { OPT_E }, cmdline, <<>>)
  IN IF p.error \/ Len(p.args) # 1 THEN Outcome(2, "none", {}, st)
     ELSE Outcome(0, "none", { "Container.Create" }, [st EXCEPT !.siteExists = TRUE])

startsite_cmd(cmdline, st) ==
  LET p == parse_args({ OPT_d }, { OPT_E }, cmdline, <<>>)
  IN IF p.error \/ Len(p.args) # 1 THEN Outcome(2, "none", {}, st)
     ELSE IF st.siteExists THEN Outcome(1, "none", {}, st)
     ELSE Outcome(0, "none", { "Container.Create" }, [st EXCEPT !.siteExists = TRUE])

generate_cmd(cmdline, st) ==
  LET p == parse_args({ OPT_m }, {}, cmdline, <<>>)
  IN IF p.error \/ Len(p.args) # 2 THEN Outcome(2, "none", {}, st)
     ELSE Outcome(0, "none", { "Generator.Generate" }, st)

vgenerate_cmd(cmdline, st) ==
  LET p == parse_args({ OPT_d }, {}, cmdline, <<>>)
      g == GenerateVersion(st.versions, st.current, st.now, st.auto)
  IN IF p.error \/ Len(p.args) # 2 THEN Outcome(2, "none", {}, st)
     ELSE IF g.raised # "none" THEN Raise(g.raised, { "VersionnedGenerator.Generate" }, st)
     ELSE Outcome(0, "none", { "VersionnedGenerator.Generate" },
                  [st EXCEPT !.versions = g.versions, !.current = g.current])

\* A vcurrent that passes "latest" on as 1.
vcurrent_version_one(word) ==
  IF word = LATEST THEN [ValueError |-> FALSE, val |-> 1] ELSE int(word)

\* vcurrent_cmd: "latest" becomes 0, any other word goes through int().
vcurrent_version(word) ==
  IF word = LATEST THEN [ValueError |-> FALSE, val |-> 0] ELSE int(word)

vcurrent_cmd(cmdline, st) ==
  LET p == parse_args({ OPT_d }, {}, cmdline, <<>>)
  IN IF p.error \/ Len(p.args) # 2 THEN Outcome(2, "none", {}, st)
     ELSE LET version == vcurrent_version(p.args[2])
              c == ChangeCurrent(st.versions, st.current, version.val)
          IN IF version.ValueError THEN Outcome(2, "none", {}, st)
             ELSE IF c.raised # "none"
             THEN [Raise(c.raised, { "VersionnedGenerator.ChangeCurrent" }, st)
                     EXCEPT !.sel = { version.val }]
             ELSE [Outcome(0, "none", { "VersionnedGenerator.ChangeCurrent" },
                           [st EXCEPT !.current = c.current])
                     EXCEPT !.sel = { version.val }]

vinfo_cmd(cmdline, st) ==
  LET p == parse_args({}, {}, cmdline, <<>>)
  IN IF p.error \/ Len(p.args) # 1 THEN Outcome(2, "none", {}, st)
     ELSE Outcome(0, "none", { "VersionnedGenerator.Versions" }, st)

vgc_cmd(cmdline, st) ==
  LET p == parse_args({}, {}, cmdline, <<>>)
      g == GarbageCollect(st.versions, st.current)
  IN IF p.error \/ Len(p.args) # 1 THEN Outcome(2, "none", {}, st)
     ELSE [Outcome(0, "none", { "VersionnedGenerator.GarbageCollect" },
                   [st EXCEPT !.versions = g.versions])
             EXCEPT !.removed = g.removed]

deploy_cmd(cmdline, st) ==
  LET p == parse_args({}, {}, cmdline, <<>>)
  IN IF p.error \/ Len(p.args) # 3 THEN Outcome(2, "none", {}, st)
     ELSE Outcome(0, "none", { "deploy.Deploy" }, st)

undeploy_cmd(cmdline, st) ==
  LET p == parse_args({}, {}, cmdline, <<>>)
  IN IF p.error \/ Len(p.args) # 3 THEN Outcome(2, "none", {}, st)
     ELSE Outcome(0, "none", { "deploy.Undeploy" }, st)

\* main(): args is the command word followed by the command's own words.
main(args, st) ==
  IF Len(args) < 1 THEN Outcome(2, "none", {}, st)
  ELSE IF args[1] \notin COMMANDS THEN Outcome(2, "none", {}, st)
  ELSE LET cmdline == Tail(args)
       IN CASE args[1] = "startsite" -> startsite_cmd(cmdline, st)
            [] args[1] = "generate" -> generate_cmd(cmdline, st)
            [] args[1] = "vgenerate" -> vgenerate_cmd(cmdline, st)
            [] args[1] = "vcurrent" -> vcurrent_cmd(cmdline, st)
            [] args[1] = "vinfo" -> vinfo_cmd(cmdline, st)
            [] args[1] = "vgc" -> vgc_cmd(cmdline, st)
            [] args[1] = "deploy" -> deploy_cmd(cmdline, st)
            [] args[1] = "undeploy" -> undeploy_cmd(cmdline, st)

\* The words tried at the version position.
VersionWords ==
  { LATEST, <<"0">>, <<"1">>, <<"2">>, <<"0", "2">>, <<"-", "1">>, <<"1", "x">> }

\* Positional words: directories, and with exactly two words, a version word
\* or a directory in second place.
Positionals ==
  { [i \in 1..n |-> D] : n \in 0..MaxArgs } \cup { <<D, w>> : w \in VersionWords }

\* Words with options among them: a value option, a flag, "--", and a value
\* option that ends the line.
OptLines ==
  { o \o q : o \in { <<OPT_d, D>>, <<OPT_E>>, <<DASHDASH>> },
             q \in { <<D>>, <<D, D>>, <<D, <<"-", "1">>>> } } \cup { <<D, OPT_d>> }

CmdLines == Positionals \cup OptLines

CInit ==
  /\ now = 1
  /\ versions \in SUBSET { 1 }
  /\ current \in { c \in SUBSET versions : Cardinality(c) <= 1 }
  /\ siteExists \in BOOLEAN
  /\ res = <<>>

\* The generator is idle while commands run.
GIdle == avail = Modules /\ GStart

\* No command has run while the generator is driven.
CIdle ==
  /\ now = 1
  /\ versions = {}
  /\ current = {}
  /\ siteExists = FALSE
  /\ res = <<>>

\* One invocation of the program: main on the words, its effect on the disk.
Invoke(args, auto) ==
  LET st == [versions |-> versions, current |-> current, now |-> now,
             siteExists |-> siteExists, auto |-> auto]
  IN << [args |-> args, before |-> st, out |-> main(args, st)] >>

Effect ==
  /\ versions' = res'[1].out.st.versions
  /\ current' = res'[1].out.st.current
  /\ siteExists' = res'[1].out.st.siteExists
  /\ UNCHANGED <<now, gvars>>

NoCommand ==
  /\ res' = Invoke(<<>>, FALSE)
  /\ Effect

UnknownCommand ==
  /\ \E cmdline \in CmdLines : res' = Invoke(<<"publish">> \o cmdline, FALSE)
  /\ Effect

Startsite ==
  /\ \E cmdline \in CmdLines : res' = Invoke(<<"startsite">> \o cmdline, FALSE)
  /\ Effect

Generate ==
  /\ \E cmdline \in CmdLines : res' = Invoke(<<"generate">> \o cmdline, FALSE)
  /\ Effect

VGenerate ==
  /\ \E cmdline \in CmdLines, auto \in BOOLEAN :
       res' = Invoke(<<"vgenerate">> \o cmdline, auto)
  /\ Effect

VCurrent ==
  /\ \E cmdline \in CmdLines : res' = Invoke(<<"vcurrent">> \o cmdline, FALSE)
  /\ Effect

VInfo ==
  /\ \E cmdline \in CmdLines : res' = Invoke(<<"vinfo">> \o cmdline, FALSE)
  /\ Effect

VGc ==
  /\ \E cmdline \in CmdLines : res' = Invoke(<<"vgc">> \o cmdline, FALSE)
  /\ Effect

Deploy ==
  /\ \E cmdline \in CmdLines : res' = Invoke(<<"deploy">> \o cmdline, FALSE)
  /\ Effect

Undeploy ==
  /\ \E cmdline \in CmdLines : res' = Invoke(<<"undeploy">> \o cmdline, FALSE)
  /\ Effect

\* Time passes between invocations.
Tick ==
  /\ now < MaxClock
  /\ now' = now + 1
  /\ UNCHANGED <<versions, current, siteExists, res, gvars>>

\* Any of the optional modules may be missing.
Init == avail \in SUBSET Modules /\ GStart /\ CIdle

Next == Build \/ StartRun \/ ProcessOne \/ EndRun

\* The pipeline and the generation runs it drives, in any environment.
Spec == Init /\ [][Next]_vars

\* Every optional module is installed.
RunInit == avail = Modules /\ GStart /\ CIdle

\* The pipeline and the generation runs it drives, every module installed.
SpecRun == RunInit /\ [][Next]_vars

\* GetProcessors alone, applied to every list of names in every environment.
SpecBuild == Init /\ [][Build]_vars

CliInit == GIdle /\ CInit

CliNext ==
  \/ NoCommand \/ UnknownCommand \/ Startsite \/ Generate \/ VGenerate
  \/ VCurrent \/ VInfo \/ VGc \/ Deploy \/ Undeploy \/ Tick

\* The command line over one versions root and one site directory.
SpecCli == CliInit /\ [][CliNext]_vars

\* ============================================================== properties

\* The modules a registered processor imports when it is instantiated.
Requires(name) ==
  CASE name = "HtmlJinja" -> { "jinja2", "jinja2_markdown" }
    [] name = "YamlJinja" -> { "jinja2", "jinja2_markdown", "yaml" }
    [] name = "CssYaml" -> { "cssyaml" }
    [] OTHER -> {}

Built == phase # "new"

Classes == [i \in 1..Len(pipeline) |-> pipeline[i].cls]

AllRegistered == \A i \in 1..Len(names) : names[i] \in ListProcessors

\* The positions GetProcessors gets to: those with only registered names
\* before them.
Reached == { i \in 1..Len(names) : \A j \in 1..(i - 1) : names[j] \in ListProcessors }

\* The reached positions at which an import fails.
Lacking == { i \in Reached : names[i] \in ListProcessors /\ ~(Requires(names[i]) \subseteq avail) }

\* C1 as stated: with every name registered the pipeline is [ignore] + one
\* new instance per name, in order, + [copy]; with a name that is not
\* registered the call raises UnknownProcessor and returns no pipeline.
C1_AsStated ==
  Built =>
    /\ AllRegistered =>
         /\ phase # "failed"
         /\ Classes = <<"Ignore">> \o names \o <<"Copy">>
    /\ ~AllRegistered =>
         /\ phase = "failed"
         /\ buildErr.kind = "UnknownProcessor"
         /\ pipeline = <<>>

\* C1, amended: the same, provided the modules of the processors that
\* GetProcessors instantiates can be imported; when one cannot, the call raises
\* MissingPythonModule instead and returns no pipeline.
C1_Pipeline ==
  Built =>
    /\ (AllRegistered /\ Lacking = {}) =>
         /\ phase # "failed"
         /\ buildErr = NoError
         /\ Len(pipeline) = Len(names) + 2
         /\ Classes = <<"Ignore">> \o names \o <<"Copy">>
         /\ run = 0 => \A i \in 1..Len(pipeline) : pipeline[i] = NewInstance(Classes[i])
    /\ (~AllRegistered /\ Lacking = {}) =>
         /\ phase = "failed"
         /\ buildErr.kind = "UnknownProcessor"
         /\ buildErr.arg \notin ListProcessors
         /\ \E i \in Reached : names[i] = buildErr.arg
         /\ pipeline = <<>>
    /\ Lacking # {} =>
         /\ phase = "failed"
         /\ buildErr.kind = "MissingPythonModule"
         /\ pipeline = <<>>

C1_Witness ==
  /\ phase = "ready"
  /\ Len(names) = 2
  /\ names[1] # names[2]
  /\ Len(pipeline) = 4

\* C5: a registered processor whose module cannot be imported makes
\* GetProcessors fail, before any StartProcessing or ProcessFile, with
\* MissingPythonModule naming a module that is missing.
C5_MissingDependency ==
  (Built /\ Lacking # {}) =>
    /\ phase = "failed"
    /\ run = 0
    /\ last = <<>>
    /\ pipeline = <<>>
    /\ buildErr.kind = "MissingPythonModule"
    /\ \E i \in Lacking : buildErr.arg \in Requires(names[i]) \ avail

Stepped == last # <<>>

\* The file name proper: the path without its directories.
NameOf(path) == basename(path)

\* A protected name: it starts with "_" or ".#", or it ends with "~".
Protected(path) ==
  \/ startswith(NameOf(path), <<"_">>)
  \/ startswith(NameOf(path), <<".", "#">>)
  \/ endswith(NameOf(path), <<"~">>)

\* The extension a renderer claims.
ExtensionOf(name) ==
  CASE name = "YamlJinja" -> YAML
    [] name = "HtmlJinja" -> HTML
    [] name = "CssYaml" -> CSS

\* Some configured renderer claims the path.
Claimed(path) == \E i \in 1..Len(names) : endswith(path, ExtensionOf(names[i]))

\* C2: the file is handled by the first processor, in pipeline order, whose
\* CanProcessFile is true, and there always is one; a file that is neither
\* protected nor claimed by a configured renderer goes to the copy processor,
\* which writes one output, at the same path, equal to the input.
C2_FirstMatchAndCopy ==
  Stepped =>
    LET l == last[1]
    IN /\ l.idx \in 1..Len(pipeline)
       /\ pipeline[l.idx].cls = l.cls
       /\ CanProcessFile(l.cls, l.in_path)
       /\ \A j \in 1..(l.idx - 1) : ~CanProcessFile(pipeline[j].cls, l.in_path)
       /\ (~Protected(l.in_path) /\ ~Claimed(l.in_path)) =>
            /\ l.cls = "Copy"
            /\ l.idx = Len(pipeline)
            /\ l.ret = "True"
            /\ l.out_path = l.in_path
            /\ l.wrote = { l.in_path }
            /\ l.in_path \in DOMAIN outfs
            /\ outfs[l.in_path] = l.in_str
            /\ l.in_path \notin failed

C2_Witness ==
  /\ Stepped
  /\ last[1].cls = "Copy"
  /\ last[1].in_path = <<"a">> \o CSS
  /\ Len(names) = 2
  /\ last[1].in_str = <<"broken">>

\* C3: a protected file is left out of the Manifest, nothing is written for
\* it, and it is not recorded as failed, whatever renderers are configured.
C3_ProtectedIgnored ==
  /\ Stepped /\ Protected(last[1].in_path) =>
       /\ last[1].cls = "Ignore"
       /\ last[1].wrote = {}
       /\ last[1].written = NoWrite
       /\ ~last[1].listed
  /\ \A q \in inputs : Protected(q) => q \notin failed /\ q \notin DOMAIN outfs
  /\ \A i \in 1..Len(manifest) : ~Protected(manifest[i])

C3_Witness ==
  /\ Stepped
  /\ last[1].in_path = DIR \o <<"_", "a">> \o HTML
  /\ \E i \in 1..Len(names) : names[i] = "HtmlJinja"
  /\ Cardinality(inputs) = 2
  /\ last[1].cls = "Ignore"

\* The path with its extension changed from .yaml to .html and nothing else.
WithHtmlExtension(path) == SubSeq(path, 1, Len(path) - Len(YAML)) \o HTML

\* C4: for a file the YamlJinja processor handles, the output path is the
\* input path with only its extension changed, and nothing is written at the
\* input path; for every other processor the output path is the input path.
C4_RenameExtensionOnly ==
  Stepped =>
    LET l == last[1]
    IN IF l.cls = "YamlJinja"
       THEN /\ l.out_path = WithHtmlExtension(l.in_path)
            /\ dirpart(l.out_path) = dirpart(l.in_path)
            /\ l.listed => l.out_path = manifest[Len(manifest)]
            /\ l.in_path \notin l.wrote
       ELSE l.out_path = l.in_path

C10_RunScopedState ==
  /\ phase # "running" =>
       \A i \in 1..Len(pipeline) : pipeline[i].ctx = NoAttr /\ pipeline[i].env = NoAttr
  /\ phase = "running" =>
       \A i \in 1..Len(pipeline) :
         /\ pipeline[i].ctx \in { NoAttr, Context(run) }
         /\ pipeline[i].env \in { NoAttr, Context(run) }
         /\ pipeline[i].cls \in Renderers => pipeline[i].ctx = Context(run)
  /\ (Stepped /\ last[1].cls \in Renderers /\ last[1].ret = "True") =>
       last[1].written = Render(last[1].cls, last[1].in_str, Context(run))
  /\ endErr = "none"

\* The second run has ended, and a file failed in it.
C10_Witness ==
  /\ run = 2
  /\ phase = "ready"
  /\ failed # {}
  /\ \E i \in 1..Len(pipeline) : pipeline[i].cls = "CssYaml"
  /\ \E i \in 1..Len(pipeline) : pipeline[i].cls = "YamlJinja"

Invoked == res # <<>>

Did(op) == Invoked /\ op \in res[1].out.ops

\* C6: GarbageCollect with no current version removes nothing; with a current
\* version it removes every other version and returns them; the current
\* version is never removed, and the Current Pointer always names a version
\* that exists.
C6_GarbageCollect ==
  /\ Did("VersionnedGenerator.GarbageCollect") =>
       LET b == res[1].before
           removed == res[1].out.removed
       IN /\ b.current = {} => (versions = b.versions /\ removed = <<>>)
          /\ b.current # {} =>
               /\ versions = b.current
               /\ { removed[i] : i \in 1..Len(removed) } = b.versions \ b.current
               /\ Len(removed) = Cardinality(b.versions \ b.current)
          /\ current = b.current
  /\ current \subseteq versions
  /\ Cardinality(current) <= 1

\* Three versions, the middle one current: vgc leaves that one alone.
C6_Witness ==
  /\ Did("VersionnedGenerator.GarbageCollect")
  /\ res[1].before.versions = { 1, 2, 3 }
  /\ res[1].before.current = { 2 }
  /\ versions = { 2 }
  /\ res[1].out.removed = <<1, 3>>

\* C7: "latest" reaches ChangeCurrent as 0 and makes the most recent version
\* current; the identifier of an existing version makes that version current;
\* a selector that names no existing version raises NoSuchVersion and leaves
\* the Current Pointer as it was.
C7_ChangeCurrent ==
  Invoked =>
    LET a == res[1].args
        b == res[1].before
        o == res[1].out
    IN /\ a = <<"vcurrent", D, LATEST>> =>
            /\ Did("VersionnedGenerator.ChangeCurrent")
            /\ o.sel = { 0 }
            /\ b.versions # {} => current = { Latest(b.versions) }
       /\ \A v \in b.versions : a = <<"vcurrent", D, <<ToString(v)>>>> =>
            /\ Did("VersionnedGenerator.ChangeCurrent")
            /\ o.raised = "none"
            /\ current = { v }
       /\ Did("VersionnedGenerator.ChangeCurrent") =>
            /\ versions = b.versions
            /\ \A n \in o.sel :
                 IF n = 0 /\ b.versions # {}
                 THEN o.raised = "none" /\ current = { Latest(b.versions) }
                 ELSE IF n \in b.versions
                 THEN o.raised = "none" /\ current = { n }
                 ELSE o.raised = "NoSuchVersion" /\ current = b.current

\* Three versions exist, the oldest current: "latest" moves to the newest.
C7_Witness ==
  /\ Invoked
  /\ res[1].args = <<"vcurrent", D, LATEST>>
  /\ res[1].before.versions = { 1, 2, 3 }
  /\ res[1].before.current = { 1 }
  /\ current = { 3 }

\* The positional words each command takes.
Expect(cmd) ==
  CASE cmd \in { "startsite", "vinfo", "vgc" } -> 1
    [] cmd \in { "generate", "vgenerate", "vcurrent" } -> 2
    [] cmd \in { "deploy", "undeploy" } -> 3

\* The options each command takes.
Words(cmd, cmdline) ==
  parse_args(IF cmd \in { "startsite", "vgenerate", "vcurrent" } THEN { OPT_d }
             ELSE IF cmd = "generate" THEN { OPT_m } ELSE {},
             IF cmd = "startsite" THEN { OPT_E } ELSE {}, cmdline, <<>>)

\* A decimal integer, with or without a sign.
IsInteger(w) ==
  LET body == IF w # <<>> /\ w[1] \in { "-", "+" } THEN Tail(w) ELSE w
  IN body # <<>> /\ \A i \in 1..Len(body) : body[i] \in Digits

\* A usage error: no command, an unknown command, a bad option, the wrong
\* number of positional words, a version that is no integer and not "latest".
Usage(a) ==
  \/ a = <<>>
  \/ a[1] \notin COMMANDS
  \/ Words(a[1], Tail(a)).error
  \/ Len(Words(a[1], Tail(a)).args) # Expect(a[1])
  \/ /\ a[1] = "vcurrent"
     /\ Words(a[1], Tail(a)).args[2] # LATEST
     /\ ~IsInteger(Words(a[1], Tail(a)).args[2])

\* The operation behind each command.
OperationOf(cmd) ==
  CASE cmd = "startsite" -> "Container.Create"
    [] cmd = "generate" -> "Generator.Generate"
    [] cmd = "vgenerate" -> "VersionnedGenerator.Generate"
    [] cmd = "vcurrent" -> "VersionnedGenerator.ChangeCurrent"
    [] cmd = "vinfo" -> "VersionnedGenerator.Versions"
    [] cmd = "vgc" -> "VersionnedGenerator.GarbageCollect"
    [] cmd = "deploy" -> "deploy.Deploy"
    [] cmd = "undeploy" -> "deploy.Undeploy"

\* C8: main returns 2 on a usage error, without invoking the operation; 1 when
\* startsite finds its target there, without creating anything; and 0 when
\* the operation has been invoked and has completed.
C8_ExitCodes ==
  Invoked =>
    LET a == res[1].args
        b == res[1].before
        o == res[1].out
    IN IF Usage(a)
       THEN o.ret = 2 /\ o.raised = "none" /\ o.ops = {} /\ o.st = b
       ELSE IF a[1] = "startsite" /\ b.siteExists
       THEN o.ret = 1 /\ o.raised = "none" /\ o.ops = {} /\ o.st = b
       ELSE /\ o.ops = { OperationOf(a[1]) }
            /\ o.raised = "none" => o.ret = 0
            /\ o.raised # "none" => o.st = b

\* startsite on a site directory that exists.
C8_Witness ==
  /\ Invoked
  /\ res[1].args = <<"startsite", OPT_E, D>>
  /\ res[1].before.siteExists
  /\ res[1].out.ret = 1
  /\ siteExists

====
